---- MODULE Spec2Model ----
(***************************************************************************)
(* Model of src/model.py: the reconstruction engine `Model`.  The engine   *)
(* owns an ordered list of views, a point cloud `vertices` and a cursor    *)
(* `next_view`; initial_reconstruction triangulates the cloud from the     *)
(* first two views, next_refinement_step carves it with one more view.     *)
(*                                                                         *)
(* Points and directions are triples of integers.  Optical axes are the    *)
(* axis-aligned unit vectors and boundary vertices have integer            *)
(* coordinates: the sums and products the code forms are then exact in     *)
(* floating point and the rounding of the least-squares solve lies far     *)
(* inside the tolerances of np.allclose and vector3_equals, which are      *)
(* kept, scaled to integers.  A call's outcome is recorded in `last`:      *)
(* the value returned, or the exception that left the call.                *)
(***************************************************************************)
EXTENDS Integers, Sequences, FiniteSets

VARIABLES views, vertices, next_view, last, seeds, pc

vars == <<views, vertices, next_view, last, seeds, pc>>

(* ------------------------------- bounds -------------------------------- *)

\* in-plane coordinates of a boundary vertex range over 0..MaxCoord
MaxCoord == 1
\* the engine holds 0..MaxViews views
MaxViews == 3
\* a view has 0..MaxVerts boundary vertices
MaxVerts == 2
\* initial_reconstruction may succeed at most MaxSeeds times in a run
MaxSeeds == 2
\* distance of every camera (and of its image plane) from the origin
CamDist == 2

(* ------------------------------ vectors -------------------------------- *)

Abs(a) == IF a < 0 THEN -a ELSE a

Max2(a, b) == IF a < b THEN b ELSE a

Dot(u, v) == u[1] * v[1] + u[2] * v[2] + u[3] * v[3]

Add(u, v) == <<u[1] + v[1], u[2] + v[2], u[3] + v[3]>>

Sub(u, v) == <<u[1] - v[1], u[2] - v[2], u[3] - v[3]>>

Scale(k, v) == <<k * v[1], k * v[2], k * v[3]>>

\* rl.vector3_cross_product
CrossProduct(u, v) ==
    <<u[2] * v[3] - u[3] * v[2], u[3] * v[1] - u[1] * v[3], u[1] * v[2] - u[2] * v[1]>>

\* faulty variant of Vector3Equals: the z components are not compared
Vector3Equals_XY(p, q) ==
    \A i \in 1..2 : 1000000 * Abs(p[i] - q[i]) <= Max2(1, Max2(Abs(p[i]), Abs(q[i])))

\* rl.vector3_equals: |p - q| <= EPSILON * max(1, |p|, |q|) per component,
\* EPSILON = 0.000001, both sides multiplied by 10^6
Vector3Equals(p, q) ==
    \A i \in 1..3 : 1000000 * Abs(p[i] - q[i]) <= Max2(1, Max2(Abs(p[i]), Abs(q[i])))

\* faulty variant of AllClose: the closeness test accepts every pair
AllClose_Skipped(a, b) == TRUE

\* np.allclose(a, b): |a - b| <= atol + rtol * |b| per component,
\* atol = 1e-8, rtol = 1e-5, both sides multiplied by 10^8
AllClose(a, b) ==
    \A i \in 1..3 : 100000000 * Abs(a[i] - b[i]) <= 1 + 1000 * Abs(b[i])

\* np.linalg.lstsq(a, b) for a = [d0 | -d1] with unit columns: the least-squares
\* (t, s), of minimum norm when the columns are parallel.  With g = d0.d1 in
\* {-1, 0, 1}: g = 0 gives t = d0.b, s = -(d1.b); g # 0 gives half of each
\* (exact for points of two parallel view planes, where d0.b is 0 or 2*CamDist).
LstSq(d0, d1, b) ==
    IF Dot(d0, d1) = 0
    THEN <<Dot(d0, b), -Dot(d1, b)>>
    ELSE <<Dot(d0, b) \div 2, (-Dot(d1, b)) \div 2>>

(* --------------------------- utils (geometry) -------------------------- *)

\* utils.calculate_plane_d: D with A*x + B*y + C*z + D = 0 at the point
calculate_plane_d(point, normal) == -Dot(normal, point)

\* utils.intersect_plane_line: where the line through `point` with direction
\* `normal` meets the plane normal.p + D = 0
intersect_plane_line(normal, plane_d, point) ==
    Sub(point, Scale((Dot(normal, point) + plane_d) \div Dot(normal, normal), normal))

(* ------------------------------- lists --------------------------------- *)

Range(s) == {s[i] : i \in DOMAIN s}

\* faulty variant of InsertFront: an element already in the list is not inserted again
InsertFront_Unique(list, x) == IF x \in Range(list) THEN list ELSE <<x>> \o list

\* list.insert(0, x)
InsertFront(list, x) == <<x>> \o list

\* faulty variant of ListIndexError: the index len(list) is taken to be in range
ListIndexError_OffByOne(list, i) == i > Len(list)

\* list[i] raises IndexError (i is a 0-based, non-negative index)
ListIndexError(list, i) == i >= Len(list)

NoView == [vy |-> <<0, 0, 0>>, vertices |-> <<>>]

\* list[i] of Python for a list of views
ViewAt(list, i) == IF i + 1 \in DOMAIN list THEN list[i + 1] ELSE NoView

\* faulty variant of ListRemove: the element is inserted instead of removed
ListRemove_Inserts(list, x) == <<x>> \o list

\* list.remove(x): drops the first element equal to x
RECURSIVE ListRemove(_, _)
ListRemove(list, x) ==
    IF list = <<>> THEN <<>>
    ELSE IF Head(list) = x THEN Tail(list)
    ELSE <<Head(list)>> \o ListRemove(Tail(list), x)

(* ------------------------------- views --------------------------------- *)

Coords == 0..MaxCoord

\* the optical axis of the k-th view loaded.  The code treats the three axes
\* and their signs alike, so views[0] looks along +x and views[1] is identical,
\* antiparallel or perpendicular (+y) to it; later views look along any axis.
DirsAt(k) ==
    IF k = 1 THEN {<<1, 0, 0>>}
    ELSE IF k = 2 THEN {<<1, 0, 0>>, <<-1, 0, 0>>, <<0, 1, 0>>}
    ELSE {<<1, 0, 0>>, <<0, 1, 0>>, <<0, 0, 1>>, <<0, 0, -1>>}

\* the image plane of a camera looking along vy towards the origin passes
\* through position = -CamDist * vy; its points with in-plane coordinates in Coords
PlanePoints(vy) ==
    {p \in [1..3 -> Coords \cup {-CamDist, CamDist}] :
        /\ Dot(vy, p) = -CamDist
        /\ \A i \in 1..3 : vy[i] = 0 => p[i] \in Coords
        /\ \A i \in 1..3 : vy[i] # 0 => p[i] = -CamDist * vy[i]}

Key(p) == (p[1] + CamDist) * 10000 + (p[2] + CamDist) * 100 + (p[3] + CamDist)

\* the elements of a set of points as a list, in increasing Key order
RECURSIVE SetToList(_)
SetToList(S) ==
    IF S = {} THEN <<>>
    ELSE LET m == CHOOSE p \in S : \A q \in S : Key(p) <= Key(q)
         IN <<m>> \o SetToList(S \ {m})

\* View(img, pos, vx, vy, vz) as the engine reads it: the optical axis and
\* the boundary vertices, which lie on the image plane
ViewSetAt(k) ==
    UNION {{[vy |-> d, vertices |-> SetToList(V)] :
              V \in {W \in SUBSET PlanePoints(d) : Cardinality(W) <= MaxVerts}} :
           d \in DirsAt(k)}

\* the lists of n views __init__ can load
RECURSIVE ViewLists(_)
ViewLists(n) ==
    IF n = 0 THEN {<<>>}
    ELSE {Append(s, v) : s \in ViewLists(n - 1), v \in ViewSetAt(n)}

(* ------------------------ initial_reconstruction ----------------------- *)

\* the pair (p0, p1) of the double loop: the point inserted, or none
PairPoint(d0, d1, p0, p1) ==
    LET ts == LstSq(d0, d1, Sub(p1, p0))
        p_inter1 == Add(p0, Scale(ts[1], d0))
        p_inter2 == Add(p1, Scale(ts[2], d1))
    IN IF AllClose(p_inter1, p_inter2) THEN <<p_inter1>> ELSE <<>>

\* the list after the inner loop over view1.vertices[j..] for one p0
RECURSIVE ScanInner(_, _, _, _, _, _)
ScanInner(list, d0, d1, p0, vs1, j) ==
    IF j > Len(vs1) THEN list
    ELSE LET hit == PairPoint(d0, d1, p0, vs1[j])
         IN ScanInner(IF hit = <<>> THEN list ELSE InsertFront(list, hit[1]),
                      d0, d1, p0, vs1, j + 1)

\* the list after the outer loop over view0.vertices[i..]
RECURSIVE ScanOuter(_, _, _, _, _, _)
ScanOuter(list, d0, d1, vs0, vs1, i) ==
    IF i > Len(vs0) THEN list
    ELSE ScanOuter(ScanInner(list, d0, d1, vs0[i], vs1, 1), d0, d1, vs0, vs1, i + 1)

\* faulty variant of ParallelVy: only identical axes are taken to be parallel
ParallelVy_IdenticalOnly(view0, view1) == view0.vy = view1.vy

\* the guard of line 85: the cross product is the zero vector
ParallelVy(view0, view1) ==
    LET c == CrossProduct(view0.vy, view1.vy)
    IN c[1] = 0 /\ c[2] = 0 /\ c[3] = 0

initial_reconstruction ==
    IF ListIndexError(views, 0) \/ ListIndexError(views, 1)
    THEN /\ last' = [op |-> "initial_reconstruction", ret |-> "IndexError"]
         /\ UNCHANGED <<views, vertices, next_view, seeds>>
    ELSE LET view0 == ViewAt(views, 0)
             view1 == ViewAt(views, 1)
         IN IF ParallelVy(view0, view1)
            THEN /\ last' = [op |-> "initial_reconstruction", ret |-> "None"]
                 /\ UNCHANGED <<views, vertices, next_view, seeds>>
            ELSE /\ next_view' = 2
                 /\ vertices' = ScanOuter(vertices, view0.vy, view1.vy,
                                          view0.vertices, view1.vertices, 1)
                 /\ seeds' = seeds + 1
                 /\ last' = [op |-> "initial_reconstruction", ret |-> "None"]
                 /\ UNCHANGED views

(* ------------------------- next_refinement_step ------------------------ *)

\* faulty variant of AllViewsConsumed: > in place of >=
AllViewsConsumed_OffByOne(nv, vs) == nv > Len(vs)

\* the guard of line 120
AllViewsConsumed(nv, vs) == nv >= Len(vs)

\* lines 141-155: points_to_remove after scanning cloud[i..]
RECURSIVE PointsToRemove(_, _, _, _, _)
PointsToRemove(marked, cloud, view, plane_d, i) ==
    IF i > Len(cloud) THEN marked
    ELSE LET plane_intersec == intersect_plane_line(view.vy, plane_d, cloud[i])
             visible == \E k \in DOMAIN view.vertices :
                            Vector3Equals(plane_intersec, view.vertices[k])
         IN PointsToRemove(IF visible THEN marked ELSE InsertFront(marked, cloud[i]),
                           cloud, view, plane_d, i + 1)

\* lines 157-158: remove every marked point from the cloud
RECURSIVE RemoveAll(_, _, _)
RemoveAll(cloud, marked, i) ==
    IF i > Len(marked) THEN cloud
    ELSE RemoveAll(ListRemove(cloud, marked[i]), marked, i + 1)

next_refinement_step ==
    IF AllViewsConsumed(next_view, views)
    THEN /\ last' = [op |-> "next_refinement_step", ret |-> "False"]
         /\ UNCHANGED <<views, vertices, next_view, seeds>>
    ELSE IF ListIndexError(views, next_view) \/ ListIndexError(ViewAt(views, next_view).vertices, 0)
    THEN /\ last' = [op |-> "next_refinement_step", ret |-> "IndexError"]
         /\ UNCHANGED <<views, vertices, next_view, seeds>>
    ELSE LET view == ViewAt(views, next_view)
             plane_d == calculate_plane_d(view.vertices[1], view.vy)
             points_to_remove == PointsToRemove(<<>>, vertices, view, plane_d, 1)
         IN /\ vertices' = RemoveAll(vertices, points_to_remove, 1)
            /\ next_view' = next_view + 1
            /\ last' = [op |-> "next_refinement_step", ret |-> "True"]
            /\ UNCHANGED <<views, seeds>>

(* --------------------------- the engine's API -------------------------- *)

\* __init__: the views are loaded, the cloud is empty, the cursor is 0
Init ==
    /\ views \in UNION {ViewLists(n) : n \in 0..MaxViews}
    /\ vertices = <<>>
    /\ next_view = 0
    /\ last = [op |-> "__init__", ret |-> "None"]
    /\ seeds = 0
    /\ pc = "api"

Seed ==
    /\ pc = "api"
    /\ seeds < MaxSeeds
    /\ initial_reconstruction
    /\ UNCHANGED pc

Step ==
    /\ pc = "api"
    /\ next_refinement_step
    /\ UNCHANGED pc

Next == Seed \/ Step

Spec == Init /\ [][Next]_vars

\* an engine that holds no more than the two views initial_reconstruction reads
InitSeedPair ==
    /\ views \in UNION {ViewLists(n) : n \in 0..2}
    /\ vertices = <<>>
    /\ next_view = 0
    /\ last = [op |-> "__init__", ret |-> "None"]
    /\ seeds = 0
    /\ pc = "api"

SpecSeedPair == InitSeedPair /\ [][Next]_vars

(* ------------------------------ the driver ----------------------------- *)

\* the driver of the engine: construct, call initial_reconstruction once,
\* then call next_refinement_step until it returns False
InitDriver ==
    /\ views \in UNION {ViewLists(n) : n \in 0..MaxViews}
    /\ vertices = <<>>
    /\ next_view = 0
    /\ last = [op |-> "__init__", ret |-> "None"]
    /\ seeds = 0
    /\ pc = "seed"

DriverSeed ==
    /\ pc = "seed"
    /\ initial_reconstruction
    /\ pc' = IF last'.ret = "IndexError" THEN "crashed" ELSE "loop"

DriverStep ==
    /\ pc = "loop"
    /\ next_refinement_step
    /\ pc' = IF last'.ret = "IndexError" THEN "crashed"
             ELSE IF last'.ret = "False" THEN "done"
             ELSE "loop"

DriverNext == DriverSeed \/ DriverStep

SpecDriver == InitDriver /\ [][DriverNext]_vars /\ WF_vars(DriverNext)

(* ------------------------- geometry of the claims ---------------------- *)

Grid3 == {<<x, y, z>> : x \in Coords, y \in Coords, z \in Coords}

\* the projection of p along view.vy onto the view's image plane
ProjectOnto(p, view) ==
    <<IF view.vy[1] # 0 THEN -CamDist * view.vy[1] ELSE p[1],
      IF view.vy[2] # 0 THEN -CamDist * view.vy[2] ELSE p[2],
      IF view.vy[3] # 0 THEN -CamDist * view.vy[3] ELSE p[3]>>

\* p is consistent with the view: its projection is a boundary vertex
Consistent(p, view) == ProjectOnto(p, view) \in Range(view.vertices)

\* the boundary vertices of the view are exactly the projections of S
SilhouetteOf(S, view) == Range(view.vertices) = {ProjectOnto(p, view) : p \in S}

\* identical or antiparallel optical axes
SameAxis(d0, d1) == d1 = d0 \/ d1 = <<-d0[1], -d0[2], -d0[3]>>

\* the points of the grid consistent with both views[0] and views[1]
SeedCloud == {p \in Grid3 : Consistent(p, views[1]) /\ Consistent(p, views[2])}

\* the state right after the first successful initial_reconstruction
FreshlySeeded ==
    /\ last = [op |-> "initial_reconstruction", ret |-> "None"]
    /\ seeds = 1

SeedCalled == last'.op = "initial_reconstruction"

StepCalled == last'.op = "next_refinement_step"

\* sub is obtained from list by deleting elements
RECURSIVE IsSubsequence(_, _)
IsSubsequence(sub, list) ==
    IF sub = <<>> THEN TRUE
    ELSE IF list = <<>> THEN FALSE
    ELSE IF Head(sub) = Head(list) THEN IsSubsequence(Tail(sub), Tail(list))
    ELSE IsSubsequence(sub, Tail(list))

(* ------------------------------- claims -------------------------------- *)

\* C1 (as stated): after the first successful initial_reconstruction on two
\* views whose boundary vertices are exactly the projections of a point set S,
\* the cloud is, as a set, exactly S.
C1_ExactlyS ==
    FreshlySeeded =>
        \A S \in SUBSET Grid3 :
            (SilhouetteOf(S, views[1]) /\ SilhouetteOf(S, views[2])) => Range(vertices) = S

\* C1 (amended): after the first successful initial_reconstruction the cloud
\* is, as a set, the set of all points whose projections onto both image planes
\* are boundary vertices.  Every point of a set S the two silhouettes come from
\* is such a point; a point outside S is one when rays of two points of S meet.
C1_AllMeetingRays ==
    FreshlySeeded =>
        \A p \in Grid3 \cup Range(vertices) :
            p \in Range(vertices) <=> (Consistent(p, views[1]) /\ Consistent(p, views[2]))

\* a first seed that inserted a point outside a set S the silhouettes come from
C1_Witness ==
    /\ FreshlySeeded
    /\ \E S \in SUBSET Grid3 :
           /\ SilhouetteOf(S, views[1]) /\ SilhouetteOf(S, views[2])
           /\ S \subseteq Range(vertices)
           /\ S # Range(vertices)

\* C2: once seeded, every point of the cloud projects, along the vy of each
\* of views[0] .. views[next_view - 1], onto a boundary vertex of that view.
C2_Consistency ==
    (seeds >= 1 /\ next_view >= 2) =>
        \A p \in Range(vertices) : \A k \in 1..next_view : Consistent(p, views[k])

\* a carving step with views[2] removed a seeded point and kept another
C2_Witness ==
    /\ seeds = 1
    /\ next_view = 3
    /\ last = [op |-> "next_refinement_step", ret |-> "True"]
    /\ vertices # <<>>
    /\ SeedCloud \ Range(vertices) # {}

\* C3: initial_reconstruction on two views with identical or antiparallel vy
\* returns without changing anything, and the cloud of such an engine is empty.
C3_DegeneracyGuard ==
    [][(SeedCalled /\ Len(views) >= 2 /\ SameAxis(views[1].vy, views[2].vy)) =>
          /\ last'.ret = "None"
          /\ vertices = <<>> /\ vertices' = <<>>
          /\ next_view' = next_view
          /\ views' = views]_vars

\* initial_reconstruction was called on a fresh engine with antiparallel axes
\* and boundary vertices in both views
C3_Witness ==
    /\ last.op = "initial_reconstruction"
    /\ Len(views) >= 2
    /\ views[2].vy = <<-views[1].vy[1], -views[1].vy[2], -views[1].vy[3]>>
    /\ views[1].vertices # <<>> /\ views[2].vertices # <<>>
    /\ vertices = <<>> /\ next_view = 0

\* C4: with next_view >= len(views), next_refinement_step returns False and
\* leaves vertices, next_view and views unchanged.
C4_TerminalIdempotence ==
    [][(StepCalled /\ next_view >= Len(views)) =>
          /\ last'.ret = "False"
          /\ vertices' = vertices /\ next_view' = next_view /\ views' = views]_vars

\* the step returned False on a non-empty cloud with all views consumed
C4_Witness ==
    /\ last = [op |-> "next_refinement_step", ret |-> "False"]
    /\ next_view = Len(views)
    /\ vertices # <<>>

\* C5: with next_view < len(views), next_refinement_step returns True and
\* increases next_view by exactly 1, whatever the cloud and the view hold.
C5_AlwaysAdvances ==
    [][(StepCalled /\ next_view < Len(views)) =>
          (last'.ret = "True" /\ next_view' = next_view + 1)]_vars

\* C6: the cloud after next_refinement_step is a sub-collection of the cloud
\* before it: no point is added, none changes value, the size does not grow.
C6_MonotoneShrinkage ==
    [][StepCalled => (IsSubsequence(vertices', vertices) /\ Len(vertices') <= Len(vertices))]_vars

\* a carving step removed every point of a seeded cloud
C6_Witness ==
    /\ seeds >= 1
    /\ SeedCloud # {}
    /\ last = [op |-> "next_refinement_step", ret |-> "True"]
    /\ vertices = <<>>

\* C7: with next_view < len(views), the cloud after next_refinement_step is
\* exactly the points of the cloud before it whose projection onto the plane of
\* views[next_view] is a boundary vertex of that view.
C7_CarvingExact ==
    [][(StepCalled /\ next_view < Len(views)) =>
          vertices' = SelectSeq(vertices, LAMBDA p : Consistent(p, views[next_view + 1]))]_vars

\* C8: with fewer than 2 views initial_reconstruction ends in an error, the
\* cloud is and stays empty and next_view keeps its value (0 on a fresh engine).
C8_FewerThanTwoViews ==
    [][(SeedCalled /\ Len(views) < 2) =>
          /\ last'.ret = "IndexError"
          /\ vertices = <<>> /\ vertices' = <<>>
          /\ next_view' = next_view
          /\ (next_view = 0 => next_view' = 0)]_vars

\* initial_reconstruction raised on a fresh engine with a single, non-empty view
C8_Witness ==
    /\ last = [op |-> "initial_reconstruction", ret |-> "IndexError"]
    /\ Len(views) = 1
    /\ views[1].vertices # <<>>
    /\ vertices = <<>> /\ next_view = 0

\* C9: initial_reconstruction called again after a successful one inserts the
\* triangulated points of views[0] and views[1] once more in front of the cloud,
\* removes nothing and leaves next_view = 2.
C9_Reseeding ==
    [][(SeedCalled /\ seeds >= 1) =>
          LET k == Len(vertices') - Len(vertices)
          IN /\ k = Cardinality(SeedCloud)
             /\ Range(SubSeq(vertices', 1, k)) = SeedCloud
             /\ SubSeq(vertices', k + 1, Len(vertices')) = vertices
             /\ next_view' = 2]_vars

\* a second successful seed after a carving step left duplicates in the cloud
C9_Witness ==
    /\ seeds = 2
    /\ last.op = "initial_reconstruction"
    /\ next_view = 2
    /\ Len(vertices) > Cardinality(Range(vertices))
    /\ Len(vertices) < 2 * Cardinality(SeedCloud)

\* C10: for n >= 2 views and a successful seed, the driver's loop ends with
\* next_refinement_step returning False at next_view = n, after n - 2 calls
\* that returned True; next_view never exceeds n.
C10_DriverTerminates ==
    (seeds = 1 /\ pc # "seed") =>
        /\ pc # "crashed"
        /\ next_view <= Len(views)
        /\ pc = "done" => (next_view = Len(views) /\ last.ret = "False")

====
